---- MODULE Spec2Model ----
(***************************************************************************)
(* Model of the paginated crawl controller of src/main.py: the entry      *)
(* point main() with its relogin fallback, one crawl() invocation with    *)
(* its pagination loop, and the response handler on_response with         *)
(* process_search_json.  The event loop is cooperative: every action is   *)
(* the code that runs between two awaits of one coroutine.                *)
(***************************************************************************)
EXTENDS Integers, Sequences, FiniteSets, Bags, TLC

(***************************************************************************)
(* Bounds of the model.                                                    *)
(***************************************************************************)
MaxResponses == 2      \* responses the network delivers in one run of main()
MaxInflight == 2       \* on_response invocations suspended at the same time

(***************************************************************************)
(* Configuration (argparse defaults and inputs).                           *)
(***************************************************************************)
NO_PROGRESS_LIMIT == 6
NAV_ATTEMPTS == 3
KEYWORD == "kw"
Budgets == {NO_PROGRESS_LIMIT, NO_PROGRESS_LIMIT + 1}
JobAreas == {"A"}

(***************************************************************************)
(* Query parameters and payloads of the responses the page can observe.    *)
(***************************************************************************)
Keywords == {"kw", "", "other"}
Areas == {"", "A", "B"}

\* decimal strings of the model: one digit each
Digits == <<"0", "1", "2", "3", "4", "5", "6", "7", "8", "9">>

\* str(n)
ToStr(n) == Digits[n + 1]

\* s.isdigit()
IsDigit(s) == \E n \in 0..9 : ToStr(n) = s

\* int(s)
ToInt(s) == CHOOSE n \in 0..9 : ToStr(n) = s

\* the pageno query parameter: missing, a number, or not a number
PageNos == {"", "x", "1", "2"}

\* str(...).strip() on the raw job ids of the model
Strip(s) == CASE s = "a " -> "a" [] OTHER -> s

\* the joblist.items arrays a payload can carry
ItemLists == { <<>>, <<"">>, <<"a", "a ">>, <<"b", "", "a">> }

\* a response body: not JSON at all, or a JSON object with its status field
BadBody == [json |-> FALSE, status |-> "", items |-> <<>>]
Bodies ==
    {BadBody}
    \cup {[json |-> TRUE, status |-> "0", items |-> <<>>]}
    \cup {[json |-> TRUE, status |-> "1", items |-> l] : l \in ItemLists}

(***************************************************************************)
(* Area names and the city dictionary.  A name is the sequence of its      *)
(* characters; the Chinese characters are written in pinyin, " " is a      *)
(* blank.                                                                  *)
(***************************************************************************)

\* "全国", the normal form of every nationwide alias
NATIONWIDE == <<"quan", "guo">>

\* ("全国", "全中国", "中国", "不限", "全部")
NationwideAliases ==
    { <<"quan", "guo">>, <<"quan", "zhong", "guo">>, <<"zhong", "guo">>,
      <<"bu", "xian">>, <<"quan", "bu4">> }

\* ("省", "市", "自治区", "特别行政区")
AdminSuffixes ==
    { <<"sheng">>, <<"shi">>, <<"zi", "zhi", "qu">>,
      <<"te", "bie", "xing", "zheng", "qu">> }

\* "省"
PROVINCE == <<"sheng">>

\* the area codes of the model in the order sorted() gives them
CodeOrder == <<"A", "B", "C">>

\* name.strip()
RECURSIVE StripName(_)
StripName(name) ==
    IF name = <<>> THEN name
    ELSE IF Head(name) = " " THEN StripName(Tail(name))
    ELSE IF name[Len(name)] = " " THEN StripName(SubSeq(name, 1, Len(name) - 1))
    ELSE name

\* s.endswith(suffix)
EndsWith(s, suffix) ==
    /\ Len(suffix) <= Len(s)
    /\ SubSeq(s, Len(s) - Len(suffix) + 1, Len(s)) = suffix

\* sub in s
Contains(s, sub) ==
    \E i \in 0..(Len(s) - Len(sub)) : SubSeq(s, i + 1, i + Len(sub)) = sub

\* normalize_area_name
normalize_area_name(name) ==
    LET n == StripName(name)
    IN  IF n \in NationwideAliases THEN NATIONWIDE ELSE n

\* build_name_to_codes on the (code, name) pairs collected from the
\* dictionary: every name maps to its codes in the order of the pairs
build_name_to_codes(pairs) ==
    LET names == { pairs[i][2] : i \in DOMAIN pairs }
        of(n) == SelectSeq(pairs, LAMBDA pr : pr[2] = n)
    IN  [ n \in names |-> [ i \in 1..Len(of(n)) |-> of(n)[i][1] ] ]

\* sorted(set(codes))
SortedSet(codes) ==
    LET cs == { codes[i] : i \in DOMAIN codes }
    IN  SelectSeq(CodeOrder, LAMBDA c : c \in cs)

\* the outcomes of resolve_jobarea_code: a code, or a ValueError
Resolved(code) ==
    [ok |-> TRUE, code |-> code, err |-> "", name |-> <<>>,
     candidates |-> <<>>, hits |-> {}]
Ambiguous(name, unique_codes) ==
    [ok |-> FALSE, code |-> "", err |-> "Ambiguous", name |-> name,
     candidates |-> unique_codes, hits |-> {}]

\* the similar matches of the last error, as the set that is sorted for
\* the message
NotFound(name, m) ==
    [ok |-> FALSE, code |-> "", err |-> "not found", name |-> name,
     candidates |-> <<>>,
     hits |-> UNION { { <<n, m[n][i]>> : i \in DOMAIN m[n] } :
                        n \in { n2 \in DOMAIN m : Contains(n2, name) } }]

\* UniqueCode with every second entry taken for an ambiguity
UniqueCode_CountsDuplicates(name, m) ==
    IF Len(m[name]) = 1 THEN Resolved(m[name][1])
                        ELSE Ambiguous(name, SortedSet(m[name]))

\* the look-up of a name that is in the table
UniqueCode(name, m) ==
    LET unique_codes == SortedSet(m[name])
    IN  IF Len(unique_codes) = 1 THEN Resolved(unique_codes[1])
                                 ELSE Ambiguous(name, unique_codes)

\* IsNationwide that knows the normal form only
IsNationwide_NoAliases(area_name) == StripName(area_name) = NATIONWIDE

\* the test that maps a name to the empty code
IsNationwide(area_name) == normalize_area_name(area_name) = NATIONWIDE

\* resolve_jobarea_code
resolve_jobarea_code(area_name, m) ==
    LET name == normalize_area_name(area_name)
        probe == name \o PROVINCE
    IN  IF IsNationwide(area_name) THEN Resolved("")
        ELSE IF name \in DOMAIN m THEN UniqueCode(name, m)
        ELSE IF (\A sfx \in AdminSuffixes : ~EndsWith(name, sfx))
                  /\ probe \in DOMAIN m
          THEN UniqueCode(probe, m)
        ELSE NotFound(name, m)

\* quote(s, safe=""): letters and digits are kept, a blank is escaped
Quote(s) == CASE s = "k w" -> "k%20w" [] OTHER -> s

\* search_url of crawl(): the path and the query parameters in order
SearchUrl(jobarea, keyword) ==
    LET kw_enc == Quote(keyword)
    IN  IF jobarea # ""
          THEN [path |-> "/jobs/search/",
                query |-> << <<"jobarea", jobarea>>, <<"keyword", kw_enc>> >>]
          ELSE [path |-> "/jobs/search",
                query |-> << <<"keyword", kw_enc>> >>]

\* --area-name values: the default "山东", names with a suffix, a city, the
\* nationwide aliases, blanks around a name, no name at all
AreaNames ==
    NationwideAliases
    \cup { <<" ", "quan", "guo", " ">>, <<"shan", "dong">>,
           <<"shan", "dong", "sheng">>, <<"qing", "dao">>,
           <<"qing", "dao", "shi">>, <<>> }

\* the (code, name) pairs of a dictionary
CityPairLists ==
    { <<>>,
      << <<"A", <<"shan", "dong", "sheng">>>>, <<"B", <<"qing", "dao">>>>,
         <<"A", <<"shan", "dong", "sheng">>>> >>,
      << <<"B", <<"shan", "dong">>>>, <<"A", <<"shan", "dong">>>>,
         <<"B", <<"shan", "dong">>>>, <<"C", <<"qing", "dao", "shi">>>> >>,
      << <<"C", <<"shan", "dong", "sheng">>>>, <<"A", <<"shan", "dong", "sheng">>>>,
         <<"B", <<"quan", "guo">>>>, <<"A", <<"zhong", "guo">>>>,
         <<"C", <<"zhong", "guo">>>> >>,
      << <<"B", <<"shan", "dong">>>>, <<"B", <<"shan", "dong">>>>,
         <<"A", <<"shan", "dong", "sheng">>>>, <<"C", <<"qing", "dao">>>> >> }

\* the defaults of a run whose area is not under study
DefaultAreaName == <<"shan", "dong">>
DefaultCityPairs == << <<"A", <<"shan", "dong", "sheng">>>> >>

\* no resolution has run
NoResult ==
    [ok |-> FALSE, code |-> "", err |-> "", name |-> <<>>,
     candidates |-> <<>>, hits |-> {}]

\* no hit-test has run
NoHitTest == [done |-> FALSE, hit_ok |-> FALSE]

\* process_search_json is not entered statement by statement
NoCall == [pc |-> "idle", pageno |-> "", items |-> <<>>, i |-> 0, new_jobs |-> 0]

\* an element the Next selectors match: is_visible(), bounding_box() (none,
\* or its width and height in px), the disabled attribute, "is-disabled"
\* in the class
Element(visible, box, width, height, disabled_attr, is_disabled) ==
    [visible |-> visible, box |-> box, width |-> width, height |-> height,
     disabled_attr |-> disabled_attr, is_disabled |-> is_disabled]

\* the Next button of a page that has a next page
NextButton == Element(TRUE, TRUE, 80, 32, FALSE, FALSE)

VARIABLES
    MAX_PAGE_ACTIONS,  \* --max-page-actions
    JOBAREA,           \* resolved area code, "" = no filter
    mainPc,            \* position of main()
    attempt,           \* number of crawl() invocations started
    calls,             \* the calls main() has made, in order
    ok,                \* the values returned by the crawl() invocations
    exits,             \* the way each crawl() invocation ended
    stateFile,         \* STATE_PATH exists
    persisted,         \* storage_state() was saved by the current crawl()
    crawlPc,           \* position of crawl()
    navTry,            \* i of goto_with_retries
    seen_pages,
    seen_jobs,
    no_progress,
    first_page_ok,
    page_arrived,
    f_jobs,            \* job stream: the jobId of each line
    f_pages,           \* page stream: the pageno of each line
    jobs_base,         \* length of the job stream when crawl() opened it
    pages_base,        \* length of the page stream when crawl() opened it
    step,
    expected_next,
    failRun,           \* consecutive failed pagination steps without a reset
    inflight,          \* bag of suspended on_response invocations
    nResp,             \* responses delivered so far
    AREA_NAME,         \* --area-name
    name_to_codes,     \* _name_to_codes, built from dd_city.json
    area_result,       \* outcome of resolve_jobarea_code at module load
    clickPc,           \* position of click_next_strict
    dom,               \* what the page shows around the Next button
    ht,                \* result of the first hit-test
    ht2,               \* result of the second hit-test
    clickLog,          \* the page operations of click_next_strict, in order
    btn,               \* the locator click_next_strict resolved, 0 = None
    ps                 \* the call of process_search_json that is running

vars == << MAX_PAGE_ACTIONS, JOBAREA, mainPc, attempt, calls, ok, exits, stateFile,
           persisted, crawlPc, navTry, seen_pages, seen_jobs, no_progress,
           first_page_ok, page_arrived, f_jobs, f_pages, jobs_base, pages_base,
           step, expected_next, failRun, inflight, nResp, AREA_NAME,
           name_to_codes, area_result, clickPc, dom, ht, ht2, clickLog,
           btn, ps >>

cfgVars == << MAX_PAGE_ACTIONS, JOBAREA >>
mainVars == << mainPc, attempt, calls, ok, exits, stateFile >>
trackerVars == << seen_pages, seen_jobs, no_progress, first_page_ok, page_arrived >>
streamVars == << f_jobs, f_pages, jobs_base, pages_base >>
loopVars == << step, expected_next, failRun >>
netVars == << inflight, nResp >>
areaVars == << AREA_NAME, name_to_codes, area_result >>
uiVars == << clickPc, dom, ht, ht2, clickLog, btn >>

\* the state of main() and of the closure of crawl() before the first call
InitRun ==
    /\ attempt = 0
    /\ calls = <<>>
    /\ ok = <<>>
    /\ exits = <<>>
    /\ persisted = FALSE
    /\ crawlPc = "idle"
    /\ navTry = 0
    /\ seen_pages = {}
    /\ seen_jobs = {}
    /\ no_progress = 0
    /\ first_page_ok = FALSE
    /\ page_arrived = <<>>
    /\ f_jobs = <<>>
    /\ f_pages = <<>>
    /\ jobs_base = 0
    /\ pages_base = 0
    /\ step = 0
    /\ expected_next = 0
    /\ failRun = 0
    /\ inflight = EmptyBag
    /\ nResp = 0
    /\ ps = NoCall

\* click_next_strict is not entered step by step
InitUi ==
    /\ clickPc = "idle"
    /\ dom = [button |-> "enabled", top |-> "button", cands |-> <<NextButton>>]
    /\ ht = NoHitTest
    /\ ht2 = NoHitTest
    /\ clickLog = <<>>
    /\ btn = 0

\* the module has been loaded: the area is resolved
Init ==
    /\ MAX_PAGE_ACTIONS \in Budgets
    /\ AREA_NAME = DefaultAreaName
    /\ name_to_codes = build_name_to_codes(DefaultCityPairs)
    /\ area_result = resolve_jobarea_code(AREA_NAME, name_to_codes)
    /\ JOBAREA \in JobAreas
    /\ JOBAREA = area_result.code
    /\ mainPc = "ensure_login"
    /\ stateFile \in BOOLEAN
    /\ InitRun
    /\ InitUi

(***************************************************************************)
(* main(): ensure_login_state, crawl, relogin fallback.                    *)
(***************************************************************************)

\* ensure_login_state(p, STATE_PATH, force): an existing state file is kept
\* unless force; otherwise a manual login saves a new one, or the login
\* browser fails and the error leaves main()
EnsureLoginState(force, name) ==
    /\ calls' = Append(calls, name)
    /\ \/ /\ ~force /\ stateFile
          /\ mainPc' = "crawl"
          /\ UNCHANGED stateFile
       \/ /\ force \/ ~stateFile
          /\ \/ /\ stateFile' = TRUE
                /\ mainPc' = "crawl"
             \/ /\ mainPc' = "raised"
                /\ UNCHANGED stateFile

MainEnsureLogin ==
    /\ mainPc = "ensure_login"
    /\ EnsureLoginState(FALSE, "ensure_login")
    /\ UNCHANGED << cfgVars, areaVars, ps, uiVars, attempt, ok, exits, persisted, crawlPc, navTry,
                    trackerVars, streamVars, loopVars, netVars >>

\* the backup of the state file: the rename is skipped when the file is
\* missing and its failure is swallowed
MainBackup ==
    /\ mainPc = "backup"
    /\ calls' = Append(calls, "backup")
    /\ \/ stateFile /\ stateFile' = FALSE
       \/ UNCHANGED stateFile
    /\ mainPc' = "relogin"
    /\ UNCHANGED << cfgVars, areaVars, ps, uiVars, attempt, ok, exits, persisted, crawlPc, navTry,
                    trackerVars, streamVars, loopVars, netVars >>

MainRelogin ==
    /\ mainPc = "relogin"
    /\ EnsureLoginState(TRUE, "relogin")
    /\ UNCHANGED << cfgVars, areaVars, ps, uiVars, attempt, ok, exits, persisted, crawlPc, navTry,
                    trackerVars, streamVars, loopVars, netVars >>

(***************************************************************************)
(* crawl(): state of one invocation, navigation, first-page wait.          *)
(***************************************************************************)

\* max([int(x) for x in seen_pages if x.isdigit()], default=1)
CurrentMaxPage(sp) ==
    LET nums == { ToInt(x) : x \in { y \in sp : IsDigit(y) } }
    IN  IF nums = {} THEN 1 ELSE CHOOSE m \in nums : \A n \in nums : n <= m

\* CrawlStart that keeps the job ids of the previous invocation
CrawlStart_KeepsSeenJobs ==
    /\ mainPc = "crawl"
    /\ crawlPc = "idle"
    /\ calls' = Append(calls, "crawl")
    /\ attempt' = attempt + 1
    /\ seen_pages' = {}
    /\ no_progress' = 0
    /\ first_page_ok' = FALSE
    /\ page_arrived' = <<>>
    /\ jobs_base' = Len(f_jobs)
    /\ pages_base' = Len(f_pages)
    /\ persisted' = FALSE
    /\ navTry' = 1
    /\ step' = 0
    /\ expected_next' = 0
    /\ failRun' = 0
    /\ crawlPc' = "goto"
    /\ UNCHANGED << cfgVars, areaVars, ps, uiVars, mainPc, ok, exits, stateFile,
                    seen_jobs, f_jobs, f_pages, netVars >>

\* the closure state of a new invocation; the streams are opened for append
CrawlStart ==
    /\ mainPc = "crawl"
    /\ crawlPc = "idle"
    /\ calls' = Append(calls, "crawl")
    /\ attempt' = attempt + 1
    /\ seen_pages' = {}
    /\ seen_jobs' = {}
    /\ no_progress' = 0
    /\ first_page_ok' = FALSE
    /\ page_arrived' = <<>>
    /\ jobs_base' = Len(f_jobs)
    /\ pages_base' = Len(f_pages)
    /\ persisted' = FALSE
    /\ navTry' = 1
    /\ step' = 0
    /\ expected_next' = 0
    /\ failRun' = 0
    /\ crawlPc' = "goto"
    /\ UNCHANGED << cfgVars, areaVars, ps, uiVars, mainPc, ok, exits, stateFile, f_jobs, f_pages,
                    netVars >>

\* goto_with_retries: page.goto succeeded
GotoOk ==
    /\ crawlPc = "goto"
    /\ crawlPc' = "wait_first"
    /\ UNCHANGED << cfgVars, areaVars, ps, uiVars, mainVars, persisted, navTry, trackerVars,
                    streamVars, loopVars, netVars >>

\* GotoFail with one more attempt
GotoFail_FourTries ==
    /\ crawlPc = "goto"
    /\ IF navTry < NAV_ATTEMPTS + 1
         THEN /\ navTry' = navTry + 1
              /\ UNCHANGED << crawlPc, exits >>
         ELSE /\ crawlPc' = "save_false"
              /\ exits' = Append(exits, "NavFailed")
              /\ UNCHANGED navTry
    /\ UNCHANGED << cfgVars, areaVars, ps, uiVars, mainPc, attempt, calls, ok,
                    stateFile, persisted, trackerVars, streamVars, loopVars,
                    netVars >>

\* goto_with_retries: page.goto failed; after the last attempt the error
\* is raised and crawl() goes to save the state and return False
GotoFail ==
    /\ crawlPc = "goto"
    /\ IF navTry < NAV_ATTEMPTS
         THEN /\ navTry' = navTry + 1
              /\ UNCHANGED << crawlPc, exits >>
         ELSE /\ crawlPc' = "save_false"
              /\ exits' = Append(exits, "NavFailed")
              /\ UNCHANGED navTry
    /\ UNCHANGED << cfgVars, areaVars, ps, uiVars, mainPc, attempt, calls, ok, stateFile, persisted,
                    trackerVars, streamVars, loopVars, netVars >>

\* asyncio.wait_for(first_page_ok.wait(), timeout=25) returned
FirstPageReady ==
    /\ crawlPc = "wait_first"
    /\ first_page_ok
    /\ crawlPc' = "loop"
    /\ step' = 1
    /\ UNCHANGED << cfgVars, areaVars, ps, uiVars, mainVars, persisted, navTry, trackerVars,
                    streamVars, expected_next, failRun, netVars >>

FirstPageTimeout ==
    /\ crawlPc = "wait_first"
    /\ ~first_page_ok
    /\ crawlPc' = "save_false"
    /\ exits' = Append(exits, "FirstPageTimeout")
    /\ UNCHANGED << cfgVars, areaVars, ps, uiVars, mainPc, attempt, calls, ok, stateFile, persisted,
                    navTry, trackerVars, streamVars, loopVars, netVars >>

(***************************************************************************)
(* crawl(): the pagination loop.                                           *)
(***************************************************************************)

\* Stagnant with a strict comparison
Stagnant_Strict(np) == np > NO_PROGRESS_LIMIT

\* Advanced with the first page counted as an advance
Advanced_FromFirstPage(sp) == CurrentMaxPage(sp) >= 1

\* the stagnation check at the head of a step
Stagnant(np) == np >= NO_PROGRESS_LIMIT

\* the success criterion evaluated right after the loop
Advanced(sp) == ~(CurrentMaxPage(sp) <= 1)

\* page_arrived[key] = asyncio.Event()
Register(pa, key) ==
    [k \in DOMAIN pa \cup {key} |-> IF k = key THEN FALSE ELSE pa[k]]

\* the loop is left: the return value is decided before the state is saved
LeaveLoop(how) ==
    /\ exits' = Append(exits, how)
    /\ crawlPc' = IF Advanced(seen_pages) THEN "save_true" ELSE "save_false"
    /\ UNCHANGED << page_arrived, expected_next >>

\* LoopHead that waits for the highest page seen, not for the one after it
LoopHead_ExpectsCurrent ==
    /\ crawlPc = "loop"
    /\ IF step > MAX_PAGE_ACTIONS
         THEN LeaveLoop("Exhausted")
         ELSE IF Stagnant(no_progress)
           THEN LeaveLoop("Stagnated")
           ELSE /\ expected_next' = CurrentMaxPage(seen_pages)
                /\ page_arrived' = Register(page_arrived, ToStr(expected_next'))
                /\ crawlPc' = "click"
                /\ UNCHANGED exits
    /\ UNCHANGED << cfgVars, areaVars, ps, uiVars, mainPc, attempt, calls, ok,
                    stateFile, persisted, navTry, seen_pages, seen_jobs,
                    no_progress, first_page_ok, streamVars, step, failRun,
                    netVars >>

\* LoopHead of a loop that is not bounded by the budget
LoopHead_NoBudget ==
    /\ crawlPc = "loop"
    /\ IF Stagnant(no_progress)
         THEN LeaveLoop("Stagnated")
         ELSE /\ expected_next' = CurrentMaxPage(seen_pages) + 1
              /\ page_arrived' = Register(page_arrived, ToStr(expected_next'))
              /\ crawlPc' = "click"
              /\ UNCHANGED exits
    /\ UNCHANGED << cfgVars, areaVars, ps, uiVars, mainPc, attempt, calls, ok,
                    stateFile, persisted, navTry, seen_pages, seen_jobs,
                    no_progress, first_page_ok, streamVars, step, failRun,
                    netVars >>

\* head of a step, after the sleep of the previous one: the range is
\* exhausted, or the stagnation limit is reached, or the wait handle of the
\* expected page is registered and click_next_strict is entered
LoopHead ==
    /\ crawlPc = "loop"
    /\ IF step > MAX_PAGE_ACTIONS
         THEN LeaveLoop("Exhausted")
         ELSE IF Stagnant(no_progress)
           THEN LeaveLoop("Stagnated")
           ELSE /\ expected_next' = CurrentMaxPage(seen_pages) + 1
                /\ page_arrived' = Register(page_arrived, ToStr(expected_next'))
                /\ crawlPc' = "click"
                /\ UNCHANGED exits
    /\ UNCHANGED << cfgVars, areaVars, ps, uiVars, mainPc, attempt, calls, ok, stateFile, persisted,
                    navTry, seen_pages, seen_jobs, no_progress, first_page_ok,
                    streamVars, step, failRun, netVars >>

\* crawl() after click_next_strict returned False: the counter is bumped
\* and the step ends with its sleep
OkClickFalse ==
    /\ crawlPc = "click"
    /\ no_progress' = no_progress + 1
    /\ failRun' = failRun + 1
    /\ step' = step + 1
    /\ crawlPc' = "loop"
    /\ UNCHANGED << cfgVars, areaVars, ps, mainVars, persisted, navTry, seen_pages, seen_jobs,
                    first_page_ok, page_arrived, streamVars, expected_next,
                    netVars >>

\* click_next_strict returned False: no button resolved, or it is disabled
ClickNotDispatched ==
    /\ OkClickFalse
    /\ UNCHANGED uiVars

\* ClickDispatched with the wait handle created after the click
ClickDispatched_RegistersAfterClick ==
    /\ crawlPc = "click"
    /\ crawlPc' = "wait_arrival"
    /\ page_arrived' = Register(page_arrived, ToStr(expected_next))
    /\ UNCHANGED << cfgVars, areaVars, ps, uiVars, mainVars, persisted, navTry,
                    seen_pages, seen_jobs, no_progress, first_page_ok,
                    streamVars, loopVars, netVars >>

\* crawl() after click_next_strict returned True: the wait for the
\* expected page begins
OkClickTrue ==
    /\ crawlPc = "click"
    /\ crawlPc' = "wait_arrival"
    /\ UNCHANGED << cfgVars, areaVars, ps, mainVars, persisted, navTry, trackerVars,
                    streamVars, loopVars, netVars >>

\* click_next_strict returned True
ClickDispatched ==
    /\ OkClickTrue
    /\ UNCHANGED uiVars

\* an error leaves click_next_strict: nothing catches it in crawl() or in
\* main()
ClickError ==
    /\ crawlPc = "click"
    /\ crawlPc' = "idle"
    /\ exits' = Append(exits, "ClickRaised")
    /\ mainPc' = "raised"
    /\ inflight' = EmptyBag
    /\ UNCHANGED << cfgVars, areaVars, ps, attempt, calls, ok, stateFile, persisted, navTry,
                    trackerVars, streamVars, loopVars, nResp >>

\* btn.click(timeout=CLICK_TIMEOUT_MS, force=True) raised: nothing catches
\* the error in click_next_strict, crawl() or main()
ClickRaised ==
    /\ ClickError
    /\ UNCHANGED uiVars

\* asyncio.wait_for(ev.wait(), timeout=15) returned
Arrived ==
    /\ crawlPc = "wait_arrival"
    /\ page_arrived[ToStr(expected_next)]
    /\ failRun' = 0
    /\ step' = step + 1
    /\ crawlPc' = "loop"
    /\ UNCHANGED << cfgVars, areaVars, ps, uiVars, mainVars, persisted, navTry, trackerVars,
                    streamVars, expected_next, netVars >>

\* ArrivalTimeout that leaves the counter alone
ArrivalTimeout_NoBump ==
    /\ crawlPc = "wait_arrival"
    /\ ~page_arrived[ToStr(expected_next)]
    /\ failRun' = failRun + 1
    /\ step' = step + 1
    /\ crawlPc' = "loop"
    /\ UNCHANGED << cfgVars, areaVars, ps, uiVars, mainVars, persisted, navTry,
                    trackerVars, streamVars, expected_next, netVars >>

\* asyncio.wait_for(ev.wait(), timeout=15) raised TimeoutError
ArrivalTimeout ==
    /\ crawlPc = "wait_arrival"
    /\ ~page_arrived[ToStr(expected_next)]
    /\ no_progress' = no_progress + 1
    /\ failRun' = failRun + 1
    /\ step' = step + 1
    /\ crawlPc' = "loop"
    /\ UNCHANGED << cfgVars, areaVars, ps, uiVars, mainVars, persisted, navTry, seen_pages, seen_jobs,
                    first_page_ok, page_arrived, streamVars, expected_next,
                    netVars >>

\* AfterCrawl with a fallback after every failure
AfterCrawl_AlwaysRetry(okv, n) == IF okv THEN "done" ELSE "backup"

\* main() after a crawl() returned: done after a success and after the second
\* invocation, the relogin fallback after a first failure
AfterCrawl(okv, n) == IF okv \/ n = 2 THEN "done" ELSE "backup"

\* context.storage_state(path=STATE_PATH), the streams and the browser are
\* closed, crawl() returns to main()
CrawlReturn ==
    /\ crawlPc \in {"save_false", "save_true"}
    /\ persisted' = TRUE
    /\ stateFile' = TRUE
    /\ ok' = Append(ok, crawlPc = "save_true")
    /\ crawlPc' = "idle"
    /\ inflight' = EmptyBag
    /\ mainPc' = AfterCrawl(crawlPc = "save_true", attempt)
    /\ UNCHANGED << cfgVars, areaVars, ps, uiVars, attempt, calls, exits, navTry, trackerVars,
                    streamVars, loopVars, nResp >>

(***************************************************************************)
(* The response handler: on_response and process_search_json.              *)
(***************************************************************************)

\* InScope without the keyword filter
InScope_AnyKeyword(search, kw, pageno, jobarea, area_filter, sp) ==
    /\ search
    /\ ~(area_filter # "" /\ jobarea # "" /\ jobarea # area_filter)
    /\ pageno # ""
    /\ pageno \notin sp

\* the filters of on_response that precede the JSON decoding
InScope(search, kw, pageno, jobarea, area_filter, sp) ==
    /\ search
    /\ kw \in {KEYWORD, ""}
    /\ ~(area_filter # "" /\ jobarea # "" /\ jobarea # area_filter)
    /\ pageno # ""
    /\ pageno \notin sp

\* job_id = str(item.get("jobid") or item.get("jobId") or "").strip()
JobIdOf(item) == Strip(item)

\* IsNewJob without the look-up in seen_jobs
IsNewJob_NoSeenCheck(job_id, seen) == job_id # ""

\* the test that lets an item through to the job stream
IsNewJob(job_id, seen) == job_id # "" /\ job_id \notin seen

\* the loop over joblist: the stream is appended to and the id marked seen
\* for every item that is let through
RECURSIVE JobLoop(_, _, _, _)
JobLoop(items, seen, stream, new_jobs) ==
    IF items = <<>>
      THEN [seen_jobs |-> seen, f_jobs |-> stream, new_jobs |-> new_jobs]
      ELSE LET job_id == JobIdOf(Head(items))
           IN  IF IsNewJob(job_id, seen)
                 THEN JobLoop(Tail(items), seen \cup {job_id},
                              Append(stream, job_id), new_jobs + 1)
                 ELSE JobLoop(Tail(items), seen, stream, new_jobs)

\* SetArrived that sets every registered handle
SetArrived_AllHandles(pa, pageno) == [k \in DOMAIN pa |-> TRUE]

\* ev = page_arrived.get(str(pageno)); if ev is not None: ev.set()
SetArrived(pa, pageno) ==
    [k \in DOMAIN pa |-> IF k = pageno THEN TRUE ELSE pa[k]]

\* Progress that takes every processed page for progress
Progress_AlwaysReset(new_jobs, np) == 0

\* the value of no_progress after a page was processed
Progress(new_jobs, np) == IF new_jobs > 0 THEN 0 ELSE np + 1

\* FirstPageOk that accepts the items of any page
FirstPageOk_AnyPage(pageno, items) == Len(items) > 0

\* the test that releases the first-page latch
FirstPageOk(pageno, items) == pageno = "1" /\ Len(items) > 0

Handler(pageno, body, pc) == [pageno |-> pageno, body |-> body, pc |-> pc]

\* a response reaches the page while crawl() runs: the filters run up to
\* `await resp.json()`, where the invocation is suspended
OnResponse(q, bodies) ==
    /\ crawlPc # "idle"
    /\ nResp' = nResp + 1
    /\ IF InScope(q.search, q.kw, q.pageno, q.jobarea, JOBAREA, seen_pages)
         THEN /\ BagCardinality(inflight) < MaxInflight
              /\ \E body \in bodies :
                    inflight' = inflight (+) SetToBag({Handler(q.pageno, body, "json")})
         ELSE UNCHANGED inflight
    /\ UNCHANGED << cfgVars, areaVars, ps, uiVars, mainVars, persisted, crawlPc, navTry, trackerVars,
                    streamVars, loopVars >>

\* JsonFailed that also marks the page as seen
JsonFailed_MarksSeen(h) ==
    /\ BagIn(h, inflight)
    /\ h.pc = "json"
    /\ ~h.body.json
    /\ no_progress' = no_progress + 1
    /\ seen_pages' = seen_pages \cup {h.pageno}
    /\ inflight' = (inflight (-) SetToBag({h}))
                       (+) SetToBag({Handler(h.pageno, h.body, "log")})
    /\ UNCHANGED << cfgVars, areaVars, ps, uiVars, mainVars, persisted, crawlPc, navTry,
                    seen_jobs, first_page_ok, page_arrived, streamVars,
                    loopVars, nResp >>

\* resp.json() raised: the counter is bumped and log_bad_response awaited
JsonFailed(h) ==
    /\ BagIn(h, inflight)
    /\ h.pc = "json"
    /\ ~h.body.json
    /\ no_progress' = no_progress + 1
    /\ inflight' = (inflight (-) SetToBag({h}))
                       (+) SetToBag({Handler(h.pageno, h.body, "log")})
    /\ UNCHANGED << cfgVars, areaVars, ps, uiVars, mainVars, persisted, crawlPc, navTry, seen_pages,
                    seen_jobs, first_page_ok, page_arrived, streamVars,
                    loopVars, nResp >>

\* log_bad_response: a line goes to bad_responses.log, or any error is
\* swallowed; either way the handler returns
LogBadResponse(h) ==
    /\ BagIn(h, inflight)
    /\ h.pc = "log"
    /\ inflight' = inflight (-) SetToBag({h})
    /\ UNCHANGED << cfgVars, areaVars, ps, uiVars, mainVars, persisted, crawlPc, navTry, trackerVars,
                    streamVars, loopVars, nResp >>

\* StatusNot1 that also marks the page as seen
StatusNot1_MarksSeen(h) ==
    /\ BagIn(h, inflight)
    /\ h.pc = "json"
    /\ h.body.json
    /\ h.body.status # "1"
    /\ no_progress' = no_progress + 1
    /\ seen_pages' = seen_pages \cup {h.pageno}
    /\ inflight' = inflight (-) SetToBag({h})
    /\ UNCHANGED << cfgVars, areaVars, ps, uiVars, mainVars, persisted, crawlPc,
                    navTry, seen_jobs, first_page_ok, page_arrived, streamVars,
                    loopVars, nResp >>

\* resp.json() returned and process_search_json ran: status is not "1"
StatusNot1(h) ==
    /\ BagIn(h, inflight)
    /\ h.pc = "json"
    /\ h.body.json
    /\ h.body.status # "1"
    /\ no_progress' = no_progress + 1
    /\ inflight' = inflight (-) SetToBag({h})
    /\ UNCHANGED << cfgVars, areaVars, ps, uiVars, mainVars, persisted, crawlPc, navTry, seen_pages,
                    seen_jobs, first_page_ok, page_arrived, streamVars,
                    loopVars, nResp >>

\* resp.json() returned and process_search_json ran on a page of status "1"
ProcessSearchJson(h) ==
    /\ BagIn(h, inflight)
    /\ h.pc = "json"
    /\ h.body.json
    /\ h.body.status = "1"
    /\ LET r == JobLoop(h.body.items, seen_jobs, f_jobs, 0)
       IN  /\ f_pages' = Append(f_pages, h.pageno)
           /\ f_jobs' = r.f_jobs
           /\ seen_jobs' = r.seen_jobs
           /\ seen_pages' = seen_pages \cup {h.pageno}
           /\ page_arrived' = SetArrived(page_arrived, h.pageno)
           /\ no_progress' = Progress(r.new_jobs, no_progress)
           /\ failRun' = IF r.new_jobs > 0 THEN 0 ELSE failRun
           /\ first_page_ok' = (first_page_ok \/ FirstPageOk(h.pageno, h.body.items))
    /\ inflight' = inflight (-) SetToBag({h})
    /\ UNCHANGED << cfgVars, areaVars, ps, uiVars, mainVars, persisted, crawlPc, navTry, jobs_base,
                    pages_base, step, expected_next, nResp >>

\* the suspended invocations
Suspended == BagToSet(inflight)

\* the requests whose responses the page observes: another API, or the
\* search API with its keyword, pageno and jobarea parameters
Query(search, kw, pageno, jobarea) ==
    [search |-> search, kw |-> kw, pageno |-> pageno, jobarea |-> jobarea]
Queries ==
    {Query(FALSE, KEYWORD, "1", "")}
    \cup { Query(TRUE, kw, "1", "") : kw \in Keywords }
    \cup { Query(TRUE, KEYWORD, "1", a) : a \in Areas }
    \cup { Query(TRUE, KEYWORD, p, "A") : p \in PageNos }

\* the network delivers any response
Response ==
    /\ nResp < MaxResponses
    /\ \E q \in Queries : OnResponse(q, Bodies)

\* the event loop resumes a suspended invocation
ResumeJsonFailed == \E h \in Suspended : JsonFailed(h)
ResumeLogBadResponse == \E h \in Suspended : LogBadResponse(h)
ResumeStatusNot1 == \E h \in Suspended : StatusNot1(h)
ResumeProcessSearchJson == \E h \in Suspended : ProcessSearchJson(h)

Next ==
    \/ MainEnsureLogin
    \/ MainBackup
    \/ MainRelogin
    \/ CrawlStart
    \/ GotoOk
    \/ GotoFail
    \/ FirstPageReady
    \/ FirstPageTimeout
    \/ LoopHead
    \/ ClickNotDispatched
    \/ ClickDispatched
    \/ ClickRaised
    \/ Arrived
    \/ ArrivalTimeout
    \/ CrawlReturn
    \/ Response
    \/ ResumeJsonFailed
    \/ ResumeLogBadResponse
    \/ ResumeStatusNot1
    \/ ResumeProcessSearchJson

Spec == Init /\ [][Next]_vars

(***************************************************************************)
(* A session of three pages: the site answers the navigation with page 1   *)
(* and every dispatched click with the next page, the response of page 2   *)
(* comes twice, and the Next button is disabled on the last page.          *)
(***************************************************************************)
E2EItems == ("1" :> <<"a", "b">>) @@ ("2" :> <<"b", "c">>) @@ ("3" :> <<"c", "", "d">>)
E2EWire == <<"1", "2", "2", "3">>
E2ELastPage == Cardinality(DOMAIN E2EItems)

\* the request of page p was sent: by the navigation, or by a click
E2ERequested(p) ==
    \/ p = "1"
    \/ expected_next > ToInt(p)
    \/ expected_next = ToInt(p) /\ crawlPc # "click"

E2EResponse ==
    /\ nResp < Len(E2EWire)
    /\ LET p == E2EWire[nResp + 1]
       IN  /\ E2ERequested(p)
           /\ OnResponse(Query(TRUE, KEYWORD, p, ""),
                         {[json |-> TRUE, status |-> "1", items |-> E2EItems[p]]})

E2EClickDispatched ==
    /\ CurrentMaxPage(seen_pages) < E2ELastPage
    /\ ClickDispatched

E2EClickNotDispatched ==
    /\ CurrentMaxPage(seen_pages) >= E2ELastPage
    /\ ClickNotDispatched

NextE2E ==
    \/ MainEnsureLogin
    \/ CrawlStart
    \/ GotoOk
    \/ FirstPageReady
    \/ LoopHead
    \/ E2EClickDispatched
    \/ E2EClickNotDispatched
    \/ Arrived
    \/ ArrivalTimeout
    \/ CrawlReturn
    \/ E2EResponse
    \/ ResumeProcessSearchJson

SpecE2E == Init /\ [][NextE2E]_vars

(***************************************************************************)
(* The load of the module: the area name of the command line is resolved   *)
(* against the city dictionary before main() runs.                         *)
(***************************************************************************)

\* JOBAREA = resolve_jobarea_code(AREA_NAME, _name_to_codes): the code is
\* bound, or the ValueError ends the program before main()
ResolveArea ==
    /\ mainPc = "resolve"
    /\ area_result' = resolve_jobarea_code(AREA_NAME, name_to_codes)
    /\ IF area_result'.ok
         THEN /\ JOBAREA' = area_result'.code
              /\ mainPc' = "ensure_login"
         ELSE /\ mainPc' = "raised"
              /\ UNCHANGED JOBAREA
    /\ UNCHANGED << MAX_PAGE_ACTIONS, AREA_NAME, name_to_codes, uiVars, ps, attempt,
                    calls, ok, exits, stateFile, persisted, crawlPc, navTry,
                    trackerVars, streamVars, loopVars, netVars >>

\* the command line gives the area name; the budget is the stagnation
\* limit and the state file exists
InitArea ==
    /\ MAX_PAGE_ACTIONS = NO_PROGRESS_LIMIT
    /\ AREA_NAME \in AreaNames
    /\ name_to_codes \in { build_name_to_codes(pairs) : pairs \in CityPairLists }
    /\ area_result = NoResult
    /\ JOBAREA = "unresolved"
    /\ mainPc = "resolve"
    /\ stateFile = TRUE
    /\ InitRun
    /\ InitUi

\* the site answers a search of an area with the jobs of that area
AreaItems == ("" :> <<"a", "b">>) @@ ("A" :> <<"a">>) @@ ("B" :> <<"b">>)

\* the searches the page can send for the keyword: any area, pages 1 and 2
AreaQueries == { Query(TRUE, KEYWORD, p, a) : p \in {"1", "2"}, a \in Areas }

AreaResponse ==
    /\ nResp < MaxResponses
    /\ \E q \in AreaQueries :
          OnResponse(q, {[json |-> TRUE, status |-> "1", items |-> AreaItems[q.jobarea]]})

NextArea ==
    \/ ResolveArea
    \/ MainEnsureLogin
    \/ CrawlStart
    \/ GotoOk
    \/ GotoFail
    \/ FirstPageReady
    \/ FirstPageTimeout
    \/ LoopHead
    \/ ClickNotDispatched
    \/ ClickDispatched
    \/ ClickRaised
    \/ Arrived
    \/ ArrivalTimeout
    \/ CrawlReturn
    \/ AreaResponse
    \/ ResumeProcessSearchJson

SpecArea == InitArea /\ [][NextArea]_vars

(***************************************************************************)
(* click_next_strict, one page operation at a time.  The page is live:     *)
(* what lies over the Next button can change between any two operations.   *)
(***************************************************************************)

\* the Next button that the selectors resolve to
Buttons == {"none", "enabled", "disabled"}

\* the element elementsFromPoint returns first at the center of the button:
\* the button or one of its descendants, a known popper, an element under
\* a fixed or sticky ancestor, under an ancestor of z-index >= 1000, under
\* neither, html or body, or no element
Tops == {"button", "popper", "fixed", "high_z", "plain", "body", "none"}

\* the elements of a pagination control: hidden templates, elements
\* without a box or with a box of at most 2 px one way, buttons, buttons
\* with a disabled marker
HiddenTemplate == Element(FALSE, TRUE, 80, 32, FALSE, FALSE)
HiddenDisabled == Element(FALSE, TRUE, 80, 32, TRUE, FALSE)
NoBox == Element(TRUE, FALSE, 0, 0, FALSE, FALSE)
Thin == Element(TRUE, TRUE, 2, 32, FALSE, FALSE)
Flat == Element(TRUE, TRUE, 80, 2, FALSE, FALSE)
Small == Element(TRUE, TRUE, 3, 3, FALSE, FALSE)
AttrDisabled == Element(TRUE, TRUE, 80, 32, TRUE, FALSE)
ClassDisabled == Element(TRUE, TRUE, 80, 32, FALSE, TRUE)

\* what the CSS selector and then the XPath match, in the order
\* _resolve_next_button_locator goes through them
CandidateLists ==
    { <<>>, <<HiddenTemplate>>, <<NoBox>>, <<Thin>>, <<Flat>>, <<Small>>,
      <<NextButton>>, <<AttrDisabled>>, <<ClassDisabled>>,
      <<HiddenTemplate, NextButton>>, <<HiddenDisabled, NextButton>>,
      <<Thin, ClassDisabled>>, <<NextButton, AttrDisabled>> }

\* Suitable with a box of 2 px accepted
Suitable_TwoPx(el) ==
    el.visible /\ el.box /\ ~(el.width < 2 \/ el.height < 2)

\* the element passes the three tests of the resolver
Suitable(el) ==
    el.visible /\ el.box /\ ~(el.width <= 2 \/ el.height <= 2)

\* _resolve_next_button_locator: the position of the first suitable
\* candidate, 0 for None
ResolveNextButton(cands) ==
    LET suitable == { i \in DOMAIN cands : Suitable(cands[i]) }
    IN  IF suitable = {} THEN 0
        ELSE CHOOSE i \in suitable : \A j \in suitable : i <= j

\* disabled_attr is not None or "is-disabled" in cls
Disabled(el) == el.disabled_attr \/ el.is_disabled

\* the element a locator points to is attached to the page
Attached(cands, loc) == loc \in DOMAIN cands

\* the button the selectors resolve to on a page
ButtonOf(cands) ==
    LET i == ResolveNextButton(cands)
    IN  IF i = 0 THEN "none"
        ELSE IF Disabled(cands[i]) THEN "disabled" ELSE "enabled"

Doms ==
    { [button |-> ButtonOf(c), top |-> t, cands |-> c] :
        c \in CandidateLists, t \in Tops }

\* hit_ok of hit_test_next_button
HitOk(d) == d.button # "none" /\ d.top = "button"

\* Intercepted whatever the hit-test reported
Intercepted_Always(h) == TRUE

\* the test that sends click_next_strict to the interceptor
Intercepted(h) == ~h.hit_ok

\* the pages escape_and_defocus can leave: the known poppers are hidden,
\* or the script failed and the failure was swallowed
EscapeAndDefocus(d) ==
    {d} \cup (IF d.top = "popper" THEN { [d EXCEPT !.top = t] : t \in Tops \ {"popper"} }
                                  ELSE {})

\* the pages disable_click_interceptor_at_next_center can leave: an
\* ancestor that is fixed, sticky or of high z-index loses its pointer
\* events and what was under it comes first
DisableInterceptor(d) ==
    IF d.button # "none" /\ d.top \in {"fixed", "high_z"}
      THEN { [d EXCEPT !.top = t] : t \in Tops }
      ELSE {d}

\* did_disable of disable_click_interceptor_at_next_center
DidDisable(d) == d.button # "none" /\ d.top \in {"fixed", "high_z"}

ClickStep(from, op, to) ==
    /\ clickPc = from
    /\ clickLog' = Append(clickLog, op)
    /\ clickPc' = to

\* await escape_and_defocus(page)
ClickDefocus ==
    /\ ClickStep("start", "escape_and_defocus", "resolve")
    /\ dom' \in EscapeAndDefocus(dom)
    /\ UNCHANGED << cfgVars, areaVars, ps, ht2, ht, btn, mainVars, persisted, crawlPc, navTry,
                    trackerVars, streamVars, loopVars, netVars >>

\* btn = await _resolve_next_button_locator(page)
ClickResolve ==
    /\ btn' = ResolveNextButton(dom.cands)
    /\ ClickStep("resolve", "_resolve_next_button_locator",
                 IF btn' = 0 THEN "returned_false" ELSE "attrs")
    /\ UNCHANGED << cfgVars, areaVars, ps, ht2, dom, ht, mainVars, persisted, crawlPc,
                    navTry, trackerVars, streamVars, loopVars, netVars >>

\* the disabled attribute and the class of the element the locator points
\* to; the element may be gone by now and the read fail
ClickAttrs ==
    /\ ClickStep("attrs", "get_attribute",
                 CASE ~Attached(dom.cands, btn) -> "raised"
                   [] Attached(dom.cands, btn) /\ Disabled(dom.cands[btn])
                        -> "returned_false"
                   [] OTHER -> "center")
    /\ UNCHANGED << cfgVars, areaVars, ps, ht2, dom, ht, btn, mainVars, persisted, crawlPc,
                    navTry, trackerVars, streamVars, loopVars, netVars >>

\* await center_locator_with_offset(page, btn, y_offset_px=160)
ClickCenter ==
    /\ ClickStep("center", "center_locator_with_offset",
                 IF Attached(dom.cands, btn) THEN "hit_test" ELSE "raised")
    /\ UNCHANGED << cfgVars, areaVars, ps, ht2, dom, ht, btn, mainVars, persisted, crawlPc,
                    navTry, trackerVars, streamVars, loopVars, netVars >>

\* ht = await hit_test_next_button(page)
ClickHitTest ==
    /\ ht' = [done |-> TRUE, hit_ok |-> HitOk(dom)]
    /\ ClickStep("hit_test", "hit_test_next_button",
                 IF Intercepted(ht') THEN "interceptor" ELSE "click")
    /\ UNCHANGED << cfgVars, areaVars, ps, ht2, dom, btn, mainVars, persisted, crawlPc,
                    navTry, trackerVars, streamVars, loopVars, netVars >>

\* dis = await disable_click_interceptor_at_next_center(page)
ClickInterceptor ==
    /\ ClickStep("interceptor",
                 IF DidDisable(dom) THEN "disable_click_interceptor:did_disable"
                                    ELSE "disable_click_interceptor",
                 "defocus2")
    /\ dom' \in DisableInterceptor(dom)
    /\ UNCHANGED << cfgVars, areaVars, ps, ht2, ht, btn, mainVars, persisted, crawlPc, navTry,
                    trackerVars, streamVars, loopVars, netVars >>

\* the second escape_and_defocus
ClickDefocus2 ==
    /\ ClickStep("defocus2", "escape_and_defocus", "center2")
    /\ dom' \in EscapeAndDefocus(dom)
    /\ UNCHANGED << cfgVars, areaVars, ps, ht2, ht, btn, mainVars, persisted, crawlPc, navTry,
                    trackerVars, streamVars, loopVars, netVars >>

\* the second center_locator_with_offset
ClickCenter2 ==
    /\ ClickStep("center2", "center_locator_with_offset",
                 IF Attached(dom.cands, btn) THEN "hit_test2" ELSE "raised")
    /\ UNCHANGED << cfgVars, areaVars, ps, ht2, dom, ht, btn, mainVars, persisted, crawlPc,
                    navTry, trackerVars, streamVars, loopVars, netVars >>

\* ClickHitTest2 that gives up when the second hit-test is not clean
ClickHitTest2_Gates ==
    /\ ht2' = [done |-> TRUE, hit_ok |-> HitOk(dom)]
    /\ ClickStep("hit_test2", "hit_test_next_button",
                 IF ht2'.hit_ok THEN "click" ELSE "returned_false")
    /\ UNCHANGED << cfgVars, areaVars, ps, dom, ht, btn, mainVars, persisted,
                    crawlPc, navTry, trackerVars, streamVars, loopVars,
                    netVars >>

\* ht2 = await hit_test_next_button(page): the result is printed only
ClickHitTest2 ==
    /\ ht2' = [done |-> TRUE, hit_ok |-> HitOk(dom)]
    /\ ClickStep("hit_test2", "hit_test_next_button", "click")
    /\ UNCHANGED << cfgVars, areaVars, ps, dom, btn, ht, mainVars, persisted, crawlPc,
                    navTry, trackerVars, streamVars, loopVars, netVars >>

\* await btn.click(timeout=CLICK_TIMEOUT_MS, force=True): True is
\* returned, or the click times out or finds the button gone and raises
ClickBtn ==
    /\ \E to \in (IF Attached(dom.cands, btn) THEN {"returned_true", "raised"}
                                               ELSE {"raised"}) :
          ClickStep("click", "btn.click", to)
    /\ UNCHANGED << cfgVars, areaVars, ps, ht2, dom, ht, btn, mainVars, persisted, crawlPc,
                    navTry, trackerVars, streamVars, loopVars, netVars >>

\* the page changes while click_next_strict is suspended
DomChange ==
    /\ clickPc \notin {"idle", "returned_true", "returned_false", "raised"}
    /\ dom' \in Doms \ {dom}
    /\ UNCHANGED << cfgVars, areaVars, ps, ht2, clickPc, ht, clickLog, btn, mainVars, persisted,
                    crawlPc, navTry, trackerVars, streamVars, loopVars, netVars >>

\* click_next_strict is called on a page
InitClick ==
    /\ MAX_PAGE_ACTIONS = NO_PROGRESS_LIMIT
    /\ AREA_NAME = DefaultAreaName
    /\ name_to_codes = build_name_to_codes(DefaultCityPairs)
    /\ area_result = resolve_jobarea_code(AREA_NAME, name_to_codes)
    /\ JOBAREA = area_result.code
    /\ mainPc = "crawl"
    /\ stateFile = TRUE
    /\ InitRun
    /\ clickPc = "start"
    /\ dom \in Doms
    /\ ht = NoHitTest
    /\ ht2 = NoHitTest
    /\ clickLog = <<>>
    /\ btn = 0

NextClick ==
    \/ ClickDefocus
    \/ ClickResolve
    \/ ClickAttrs
    \/ ClickCenter
    \/ ClickHitTest
    \/ ClickInterceptor
    \/ ClickDefocus2
    \/ ClickCenter2
    \/ ClickHitTest2
    \/ ClickBtn
    \/ DomChange

SpecClick == InitClick /\ [][NextClick]_vars

(***************************************************************************)
(* The session of three pages with click_next_strict run one page          *)
(* operation at a time inside each step of the pagination loop.            *)
(***************************************************************************)

\* a run with the state file in place and a budget of as many actions as
\* the stagnation limit
InitLive ==
    /\ Init
    /\ MAX_PAGE_ACTIONS = NO_PROGRESS_LIMIT
    /\ stateFile

\* ok_click = await click_next_strict(page): the call
PagingEnter ==
    /\ crawlPc = "click"
    /\ clickPc = "idle"
    /\ clickPc' = "start"
    /\ clickLog' = <<>>
    /\ ht' = NoHitTest
    /\ ht2' = NoHitTest
    /\ btn' = 0
    /\ UNCHANGED << cfgVars, areaVars, ps, dom, mainVars, persisted, crawlPc, navTry,
                    trackerVars, streamVars, loopVars, netVars >>

\* click_next_strict returns False to crawl()
PagingFalse ==
    /\ clickPc = "returned_false"
    /\ clickPc' = "idle"
    /\ OkClickFalse
    /\ UNCHANGED << dom, ht, ht2, clickLog, btn >>

\* click_next_strict returns True to crawl()
PagingTrue ==
    /\ clickPc = "returned_true"
    /\ clickPc' = "idle"
    /\ OkClickTrue
    /\ UNCHANGED << dom, ht, ht2, clickLog, btn >>

\* the error of a page operation leaves click_next_strict
PagingRaised ==
    /\ clickPc = "raised"
    /\ clickPc' = "idle"
    /\ ClickError
    /\ UNCHANGED << dom, ht, ht2, clickLog, btn >>

\* --max-page-actions 2, the state file in place
PagingBudget == 2
InitPaging ==
    /\ MAX_PAGE_ACTIONS = PagingBudget
    /\ AREA_NAME = DefaultAreaName
    /\ name_to_codes = build_name_to_codes(DefaultCityPairs)
    /\ area_result = resolve_jobarea_code(AREA_NAME, name_to_codes)
    /\ JOBAREA = area_result.code
    /\ mainPc = "ensure_login"
    /\ stateFile = TRUE
    /\ InitRun
    /\ InitUi

NextPaging ==
    \/ MainEnsureLogin
    \/ CrawlStart
    \/ GotoOk
    \/ FirstPageReady
    \/ LoopHead
    \/ PagingEnter
    \/ ClickDefocus
    \/ ClickResolve
    \/ ClickAttrs
    \/ ClickCenter
    \/ ClickHitTest
    \/ ClickInterceptor
    \/ ClickDefocus2
    \/ ClickCenter2
    \/ ClickHitTest2
    \/ ClickBtn
    \/ DomChange
    \/ PagingFalse
    \/ PagingTrue
    \/ PagingRaised
    \/ Arrived
    \/ ArrivalTimeout
    \/ CrawlReturn
    \/ E2EResponse
    \/ ResumeProcessSearchJson

SpecPaging == InitPaging /\ [][NextPaging]_vars

(***************************************************************************)
(* The first crawl() of a run under the scheduling of the event loop: a    *)
(* coroutine that can go on is resumed, and every wait of crawl() ends     *)
(* with its event or with its timeout.                                     *)
(***************************************************************************)

\* the steps of crawl()
CrawlStep ==
    \/ GotoOk
    \/ GotoFail
    \/ FirstPageReady
    \/ FirstPageTimeout
    \/ LoopHead
    \/ ClickNotDispatched
    \/ ClickDispatched
    \/ ClickRaised
    \/ Arrived
    \/ ArrivalTimeout
    \/ CrawlReturn

NextFirst ==
    \/ MainEnsureLogin
    \/ CrawlStart
    \/ GotoOk
    \/ GotoFail
    \/ FirstPageReady
    \/ FirstPageTimeout
    \/ LoopHead
    \/ ClickNotDispatched
    \/ ClickDispatched
    \/ ClickRaised
    \/ Arrived
    \/ ArrivalTimeout
    \/ CrawlReturn
    \/ Response
    \/ ResumeJsonFailed
    \/ ResumeLogBadResponse
    \/ ResumeStatusNot1
    \/ ResumeProcessSearchJson

\* a run of main() up to the return of its first crawl()
SpecFirst == Init /\ [][NextFirst]_vars

SpecLive == InitLive /\ [][NextFirst]_vars /\ WF_vars(CrawlStep)

\* the same run with the relogin fallback and the second crawl()
SpecRetry == InitLive /\ [][Next]_vars

(***************************************************************************)
(* The first crawl() of a run against a server whose answers are all       *)
(* well-formed JSON: a failure is reported in the status field.            *)
(***************************************************************************)
JsonBodies == { b \in Bodies : b.json }

ServerResponse ==
    /\ nResp < MaxResponses
    /\ \E q \in Queries : OnResponse(q, JsonBodies)

NextServer ==
    \/ MainEnsureLogin
    \/ CrawlStart
    \/ GotoOk
    \/ GotoFail
    \/ FirstPageReady
    \/ FirstPageTimeout
    \/ LoopHead
    \/ ClickNotDispatched
    \/ ClickDispatched
    \/ ClickRaised
    \/ Arrived
    \/ ArrivalTimeout
    \/ CrawlReturn
    \/ ServerResponse
    \/ ResumeStatusNot1
    \/ ResumeProcessSearchJson

SpecServer == Init /\ [][NextServer]_vars

(***************************************************************************)
(* The first crawl() of a run on a page whose responses all come from the  *)
(* search API.                                                             *)
(***************************************************************************)
SearchQueries == { q \in Queries : q.search }

SearchResponse ==
    /\ nResp < MaxResponses
    /\ \E q \in SearchQueries : OnResponse(q, Bodies)

NextSearch ==
    \/ MainEnsureLogin
    \/ CrawlStart
    \/ GotoOk
    \/ GotoFail
    \/ FirstPageReady
    \/ FirstPageTimeout
    \/ LoopHead
    \/ ClickNotDispatched
    \/ ClickDispatched
    \/ ClickRaised
    \/ Arrived
    \/ ArrivalTimeout
    \/ CrawlReturn
    \/ SearchResponse
    \/ ResumeJsonFailed
    \/ ResumeLogBadResponse
    \/ ResumeStatusNot1
    \/ ResumeProcessSearchJson

SpecSearch == Init /\ [][NextSearch]_vars

(***************************************************************************)
(* process_search_json on a payload of status "1", one statement at a      *)
(* time, during the first-page wait of crawl().  The function runs         *)
(* without suspension; an error of a statement ends the call where it is:  *)
(* a write that fails, or an item of joblist that is not an object.        *)
(***************************************************************************)

\* an item of joblist that is no object: item.get raises
NotAnObject == "null"

\* the joblist.items arrays of the payloads
CallItemLists == ItemLists \cup { <<"b", NotAnObject, "c">> }

\* process_search_json(data, url, pageno) is called by on_response
PsCall ==
    /\ crawlPc # "idle"
    /\ ps.pc = "idle"
    /\ nResp < MaxResponses
    /\ nResp' = nResp + 1
    /\ \E pageno \in {"1", "2"} : \E items \in CallItemLists :
          ps' = [pc |-> "page_meta", pageno |-> pageno, items |-> items,
                 i |-> 1, new_jobs |-> 0]
    /\ UNCHANGED << cfgVars, areaVars, uiVars, mainVars, persisted, crawlPc,
                    navTry, trackerVars, streamVars, loopVars, inflight >>

\* PsWritePage that marks the page seen before its line is written
PsWritePage_MarksFirst ==
    /\ ps.pc = "page_meta"
    /\ seen_pages' = seen_pages \cup {ps.pageno}
    /\ ps' = [ps EXCEPT !.pc = "item"]
    /\ UNCHANGED << cfgVars, areaVars, uiVars, mainVars, persisted, crawlPc,
                    navTry, seen_jobs, no_progress, first_page_ok,
                    page_arrived, streamVars, loopVars, netVars >>

\* f_pages.write(...); f_pages.flush(): the line is in the stream, or the
\* write raised
PsWritePage ==
    /\ ps.pc = "page_meta"
    /\ \/ /\ f_pages' = Append(f_pages, ps.pageno)
          /\ ps' = [ps EXCEPT !.pc = "item"]
       \/ /\ ps' = NoCall
          /\ UNCHANGED f_pages
    /\ UNCHANGED << cfgVars, areaVars, uiVars, mainVars, persisted, crawlPc,
                    navTry, trackerVars, f_jobs, jobs_base, pages_base,
                    loopVars, netVars >>

\* head of the loop over joblist: the loop is over, item.get raises, the
\* item is skipped, or its line is to be written
PsItem ==
    /\ ps.pc = "item"
    /\ ps' = IF ps.i > Len(ps.items)
               THEN [ps EXCEPT !.pc = "seen_page"]
               ELSE IF ps.items[ps.i] = NotAnObject
                 THEN NoCall
                 ELSE IF IsNewJob(JobIdOf(ps.items[ps.i]), seen_jobs)
                   THEN [ps EXCEPT !.pc = "write_job"]
                   ELSE [ps EXCEPT !.i = ps.i + 1]
    /\ UNCHANGED << cfgVars, areaVars, uiVars, mainVars, persisted, crawlPc,
                    navTry, trackerVars, streamVars, loopVars, netVars >>

\* f_jobs.write(...); f_jobs.flush(): the line is in the stream, or the
\* write raised
PsWriteJob ==
    /\ ps.pc = "write_job"
    /\ \/ /\ f_jobs' = Append(f_jobs, JobIdOf(ps.items[ps.i]))
          /\ ps' = [ps EXCEPT !.pc = "add_job"]
       \/ /\ ps' = NoCall
          /\ UNCHANGED f_jobs
    /\ UNCHANGED << cfgVars, areaVars, uiVars, mainVars, persisted, crawlPc,
                    navTry, trackerVars, f_pages, jobs_base, pages_base,
                    loopVars, netVars >>

\* seen_jobs.add(job_id); new_jobs += 1
PsAddJob ==
    /\ ps.pc = "add_job"
    /\ seen_jobs' = seen_jobs \cup {JobIdOf(ps.items[ps.i])}
    /\ ps' = [ps EXCEPT !.pc = "item", !.i = ps.i + 1,
                        !.new_jobs = ps.new_jobs + 1]
    /\ UNCHANGED << cfgVars, areaVars, uiVars, mainVars, persisted, crawlPc,
                    navTry, seen_pages, no_progress, first_page_ok,
                    page_arrived, streamVars, loopVars, netVars >>

\* seen_pages.add(str(pageno)) and the rest of the function
PsSeenPage ==
    /\ ps.pc = "seen_page"
    /\ seen_pages' = seen_pages \cup {ps.pageno}
    /\ page_arrived' = SetArrived(page_arrived, ps.pageno)
    /\ no_progress' = Progress(ps.new_jobs, no_progress)
    /\ failRun' = IF ps.new_jobs > 0 THEN 0 ELSE failRun
    /\ first_page_ok' = (first_page_ok \/ FirstPageOk(ps.pageno, ps.items))
    /\ ps' = NoCall
    /\ UNCHANGED << cfgVars, areaVars, uiVars, mainVars, persisted, crawlPc,
                    navTry, seen_jobs, streamVars, step, expected_next,
                    netVars >>

\* main() and crawl() run between two calls, never inside one
BetweenCalls ==
    /\ ps.pc = "idle"
    /\ \/ MainEnsureLogin
       \/ CrawlStart
       \/ GotoOk
       \/ FirstPageReady
       \/ FirstPageTimeout
       \/ CrawlReturn

NextCall ==
    \/ BetweenCalls
    \/ PsCall
    \/ PsWritePage
    \/ PsItem
    \/ PsWriteJob
    \/ PsAddJob
    \/ PsSeenPage

SpecCall == InitPaging /\ [][NextCall]_vars

(***************************************************************************)
(* Properties.                                                             *)
(***************************************************************************)

Range(f) == { f[i] : i \in DOMAIN f }
Count(f, x) == Cardinality({ i \in DOMAIN f : f[i] = x })
IsPrefix(a, b) == Len(a) <= Len(b) /\ SubSeq(b, 1, Len(a)) = a

\* the lines the current crawl() invocation has written
JobsWritten == SubSeq(f_jobs, jobs_base + 1, Len(f_jobs))
PagesWritten == SubSeq(f_pages, pages_base + 1, Len(f_pages))

\* the way the current invocation ended, "none" while it runs
CurrentExit ==
    IF attempt >= 1 /\ Len(exits) = attempt THEN exits[attempt] ELSE "none"
LoopExits == {"Stagnated", "Exhausted"}

\* a step of the suspended invocation h: one copy of h leaves the bag while
\* crawl() stays where it is
Resumed(h) ==
    /\ crawlPc' = crawlPc
    /\ CopiesIn(h, inflight') = CopiesIn(h, inflight) - 1

\* the distinct non-empty job ids of items not in seen, by first occurrence
FirstSeen(items, seen) ==
    LET id(i) == Strip(items[i])
        firsts == { i \in DOMAIN items :
                      /\ id(i) # ""
                      /\ id(i) \notin seen
                      /\ \A j \in 1..(i - 1) : id(j) # id(i) }
    IN  [ k \in 1..Cardinality(firsts) |->
            id(CHOOSE i \in firsts : Cardinality({ j \in firsts : j < i }) = k - 1) ]

\* C1: within one crawl() invocation at most one PageRecord is written to
\* the page stream for any pageno, whatever the interleaving of the
\* on_response invocations
C1_OnePageRecordPerPageno ==
    \A p \in Range(PagesWritten) : Count(PagesWritten, p) <= 1

\* C2: within one crawl() invocation the job stream holds exactly one line
\* per jobId of seen_jobs and none is empty; processing a page appends the
\* distinct non-empty jobIds not seen before, in first-seen order, and no
\* step changes a line that was written
C2_JobStreamDeduplicated ==
    /\ [](/\ \A j \in Range(JobsWritten) : Count(JobsWritten, j) = 1
          /\ Range(JobsWritten) = seen_jobs
          /\ "" \notin seen_jobs)
    /\ [][ /\ IsPrefix(f_jobs, f_jobs')
           /\ \A h \in Suspended :
                (Resumed(h) /\ h.pc = "json" /\ h.body.json /\ h.body.status = "1")
                   => f_jobs' = f_jobs \o FirstSeen(h.body.items, seen_jobs) ]_vars

\* C2 witness: a second page repeated a jobId of the first and added one
C2_Witness ==
    /\ JobsWritten = <<"a", "b">>
    /\ Len(PagesWritten) = 2

\* C3: the session of three pages with the response of page 2 delivered
\* twice ends with the job stream holding the non-empty jobIds of the
\* three pages once each and with 3 PageRecords in the page stream
C3_ThreePagesEndToEnd ==
    (mainPc = "done" /\ nResp = Len(E2EWire) /\ seen_pages = {"1", "2", "3"})
       => /\ Range(f_jobs) = {"a", "b", "c", "d"}
          /\ Len(f_jobs) = 4
          /\ Len(f_pages) = 3

\* C4: a JSON decoding failure of an in-scope response for an unseen pageno
\* writes no record, leaves seen_pages, seen_jobs, the latch and the wait
\* handles alone, adds exactly 1 to no_progress, and the handler ends with
\* crawl() and main() where they were
C4_JsonFailureOnlyBumps ==
    [][ \A h \in Suspended :
          /\ (Resumed(h) /\ h.pc = "json" /\ ~h.body.json)
               => /\ no_progress' = no_progress + 1
                  /\ UNCHANGED << seen_pages, seen_jobs, first_page_ok,
                                  page_arrived, f_jobs, f_pages, mainPc >>
          /\ (Resumed(h) /\ h.pc = "log")
               => UNCHANGED << trackerVars, f_jobs, f_pages, mainPc >> ]_vars

\* C4 witness: the first response failed to decode and is being logged
C4_Witness ==
    /\ \E h \in Suspended : h.pc = "log" /\ h.pageno = "1"
    /\ no_progress = 1
    /\ seen_pages = {}
    /\ f_pages = <<>>

\* C5 as claimed: after six consecutive failed steps the loop is left as
\* Stagnated with at most 6 actions taken, for every budget of at least 6
C5_StagnatedAfterSixFailures ==
    (CurrentExit \in LoopExits /\ failRun >= NO_PROGRESS_LIMIT)
       => (CurrentExit = "Stagnated" /\ step - 1 <= NO_PROGRESS_LIMIT)

\* C5 amended: after six consecutive failed steps with no new job accepted
\* in between, no further pagination action is started; the loop is left as
\* Stagnated when an action of the budget remained and as Exhausted when
\* the sixth failure consumed the last one
C5_NoActionAfterSixFailures ==
    /\ crawlPc \in {"click", "wait_arrival"} => failRun < NO_PROGRESS_LIMIT
    /\ (CurrentExit \in LoopExits /\ failRun >= NO_PROGRESS_LIMIT)
          => CurrentExit = (IF step <= MAX_PAGE_ACTIONS THEN "Stagnated"
                                                        ELSE "Exhausted")

\* C5 witness: six failures in a budget of seven end in Stagnated
C5_Witness ==
    /\ MAX_PAGE_ACTIONS = NO_PROGRESS_LIMIT + 1
    /\ failRun = NO_PROGRESS_LIMIT
    /\ CurrentExit = "Stagnated"
    /\ step = NO_PROGRESS_LIMIT + 1

\* C6: when the loop is left, by stagnation or by exhaustion, success is
\* chosen exactly when a numeric pageno greater than 1 is in seen_pages,
\* and crawl() returns what was chosen
C6_SuccessIffAdvanced ==
    [][ /\ (CurrentExit = "none" /\ CurrentExit' \in LoopExits)
          => ((crawlPc' = "save_true")
                 <=> \E p \in seen_pages' : IsDigit(p) /\ ToInt(p) > 1)
        /\ (CurrentExit \in LoopExits /\ Len(ok') > Len(ok))
          => ok'[Len(ok')] = (crawlPc = "save_true") ]_vars

\* C6 witness: a stagnated loop that had seen page 2 reported success
C6_Witness ==
    /\ exits = <<"Stagnated">>
    /\ ok = <<TRUE>>
    /\ seen_pages = {"1", "2"}

\* C7: whenever a crawl() invocation has ended, storage_state was saved
C7_PersistedOnEveryExit ==
    (CurrentExit # "none" /\ crawlPc = "idle") => persisted

\* C8: a click whose dispatch raises adds 1 to no_progress, the loop goes
\* on to its next step and no error reaches main()
C8_DispatchFailureIsStagnation ==
    [][ ClickRaised => /\ no_progress' = no_progress + 1
                       /\ crawlPc' = "loop"
                       /\ mainPc' = "crawl" ]_vars

\* C9: the relogin fallback runs only after a first invocation that ended
\* before the pagination loop
C9_RecoveryOnlyBeforePaginating ==
    "backup" \in Range(calls) => exits[1] \in {"NavFailed", "FirstPageTimeout"}

\* C10: main() makes its calls in the order crawl, backup, relogin, crawl;
\* the fallback follows only a first failure, nothing follows a first
\* success or the second crawl()
C10_AtMostTwoAttempts ==
    /\ attempt <= 2
    /\ IsPrefix(calls, <<"ensure_login", "crawl", "backup", "relogin", "crawl">>)
    /\ Len(calls) > 2 => (Len(ok) >= 1 /\ ~ok[1])
    /\ (Len(ok) >= 1 /\ ok[1]) => (mainPc = "done" /\ Len(calls) = 2)
    /\ Len(ok) = 2 => mainPc = "done"

\* C10 witness: both invocations failed and main() is done
C10_Witness ==
    /\ calls = <<"ensure_login", "crawl", "backup", "relogin", "crawl">>
    /\ ok = <<FALSE, FALSE>>
    /\ mainPc = "done"

\* the position of a code in sorted order
CodeRank(c) == CHOOSE i \in DOMAIN CodeOrder : CodeOrder[i] = c

\* the name resolve_jobarea_code looks up for the area name of the run:
\* the bare name when the table has it, else the name with the province
\* suffix when that probe is made and the table has it, else no name
LookedUp ==
    LET name == StripName(AREA_NAME)
        probe == name \o PROVINCE
    IN  IF name \in DOMAIN name_to_codes THEN name
        ELSE IF probe \in DOMAIN name_to_codes
                  /\ \A sfx \in AdminSuffixes : ~EndsWith(name, sfx)
          THEN probe
        ELSE <<>>

\* C12: for every name of the nationwide alias set the area resolves to
\* the empty code whatever the table holds; with the empty code the search
\* URL has no jobarea parameter, the filters of on_response give the same
\* answer for every jobarea value, and a delivered response is dropped only
\* when a page of the searches was already seen
C12_NationwideNoAreaFilter ==
    /\ []((mainPc # "resolve" /\ AREA_NAME \in NationwideAliases)
            => /\ area_result.ok
               /\ JOBAREA = ""
               /\ \A i \in DOMAIN SearchUrl(JOBAREA, KEYWORD).query :
                     SearchUrl(JOBAREA, KEYWORD).query[i][1] # "jobarea"
               /\ \A q \in AreaQueries :
                     InScope(q.search, q.kw, q.pageno, q.jobarea, JOBAREA, seen_pages)
                       = InScope(q.search, q.kw, q.pageno, "", JOBAREA, seen_pages))
    /\ [][ (AREA_NAME \in NationwideAliases /\ nResp' = nResp + 1
              /\ inflight' = inflight)
             => \E q \in AreaQueries : q.pageno \in seen_pages ]_vars

\* C12 witness: "中国" is a name of the table, the run is nationwide and
\* the page of the search of area B was accepted
C12_Witness ==
    /\ AREA_NAME = <<"zhong", "guo">>
    /\ AREA_NAME \in DOMAIN name_to_codes
    /\ JOBAREA = ""
    /\ PagesWritten = <<"1">>
    /\ JobsWritten = <<"b">>

\* C13: when the name that is looked up (the bare name, or the probe with
\* the province suffix when the bare name is absent) has exactly one
\* distinct code the area resolves to that code, and when it has two or
\* more the resolution fails with an ambiguity error that names the name
\* and lists exactly its distinct codes in sorted order
C13_UniqueCodeOrAmbiguity ==
    (mainPc # "resolve" /\ StripName(AREA_NAME) \notin NationwideAliases
       /\ LookedUp # <<>>)
      => LET codes == Range(name_to_codes[LookedUp])
             cand == area_result.candidates
         IN  /\ Cardinality(codes) = 1
                  => (area_result.ok /\ {JOBAREA} = codes)
             /\ Cardinality(codes) >= 2
                  => /\ ~area_result.ok
                     /\ area_result.err = "Ambiguous"
                     /\ area_result.name = LookedUp
                     /\ Range(cand) = codes
                     /\ Len(cand) = Cardinality(codes)
                     /\ \A i, j \in DOMAIN cand :
                           i < j => CodeRank(cand[i]) < CodeRank(cand[j])
                     /\ mainPc = "raised"

\* C13 witness: "山东" is absent, "山东省" has the codes C and A
C13_Witness ==
    /\ AREA_NAME = <<"shan", "dong">>
    /\ AREA_NAME \notin DOMAIN name_to_codes
    /\ mainPc = "raised"
    /\ area_result.name = <<"shan", "dong", "sheng">>
    /\ area_result.candidates = <<"A", "C">>

\* C11: in click_next_strict, after a first hit-test that reported a clean
\* hit, disable_click_interceptor_at_next_center is never called and no
\* second hit-test is run: the click is the operation that follows the
\* hit-test
C11_CleanHitGoesStraightToClick ==
    (ht.done /\ ht.hit_ok)
      => /\ \A i \in DOMAIN clickLog :
               clickLog[i] \notin {"disable_click_interceptor",
                                   "disable_click_interceptor:did_disable"}
         /\ Count(clickLog, "hit_test_next_button") = 1
         /\ clickLog[Len(clickLog)] \in {"hit_test_next_button", "btn.click"}
         /\ clickLog[Len(clickLog)] = "btn.click"
               => clickLog[Len(clickLog) - 1] = "hit_test_next_button"

\* C11 witness: the button was hit cleanly and the click was dispatched
C11_Witness ==
    /\ ht.done /\ ht.hit_ok
    /\ clickPc = "returned_true"
    /\ clickLog = << "escape_and_defocus", "_resolve_next_button_locator",
                     "get_attribute", "center_locator_with_offset",
                     "hit_test_next_button", "btn.click" >>

\* C14: every crawl() that was started ends: it returns, or the error of a
\* click leaves it; every wait ends with its event or its timeout, and
\* click_next_strict is entered at most MAX_PAGE_ACTIONS times, once in
\* each of the steps 1..MAX_PAGE_ACTIONS
C14_AttemptTerminatesWithinBudget ==
    /\ [](crawlPc \in {"click", "wait_arrival"} => step \in 1..MAX_PAGE_ACTIONS)
    /\ [](crawlPc = "goto" => navTry \in 1..NAV_ATTEMPTS)
    /\ [][(crawlPc # "click" /\ crawlPc' = "click")
             => (crawlPc = "loop" /\ step' = step)]_vars
    /\ [][(crawlPc \in {"click", "wait_arrival"} /\ crawlPc' = "loop")
             => step' = step + 1]_vars
    /\ (crawlPc # "idle") ~> (crawlPc = "idle" /\ CurrentExit # "none")

\* C14 witness: the budget of six actions was used up and crawl() returned
C14_Witness ==
    /\ MAX_PAGE_ACTIONS = NO_PROGRESS_LIMIT
    /\ step = MAX_PAGE_ACTIONS + 1
    /\ CurrentExit = "Exhausted"
    /\ crawlPc = "idle"
    /\ no_progress < NO_PROGRESS_LIMIT

\* C15: when the handler of an in-scope response for an unseen pageno is
\* resumed with a decoded payload whose status is not "1", no line is
\* written to either stream, seen_pages, seen_jobs, the latch and every
\* wait handle stay as they are, and no_progress grows by exactly 1; a
\* pageno is in seen_pages only with its PageRecord, so a later response of
\* status "1" for the same pageno passes the filters
C15_ServerFailureOnlyBumps ==
    /\ [][ \A h \in Suspended :
             (Resumed(h) /\ h.pc = "json" /\ h.body.json /\ h.body.status # "1")
               => /\ no_progress' = no_progress + 1
                  /\ UNCHANGED << seen_pages, seen_jobs, first_page_ok,
                                  page_arrived, f_jobs, f_pages >>
                  /\ h.pageno \notin seen_pages
                       => InScope(TRUE, KEYWORD, h.pageno, JOBAREA, JOBAREA,
                                  seen_pages')
           ]_vars
    /\ [](seen_pages = Range(PagesWritten))

\* C15 witness: the first answer for page 1 reported a failure, the second
\* was processed and brought no job
C15_Witness ==
    /\ crawlPc = "wait_first"
    /\ nResp = 2
    /\ no_progress = 2
    /\ PagesWritten = <<"1">>
    /\ seen_pages = {"1"}
    /\ inflight = EmptyBag

\* C16: when the handler of a page of status "1" is resumed, its pageno is
\* added to seen_pages, the wait handle registered under that pageno, if
\* there is one, is set and no other handle changes, and no_progress
\* becomes 0 when the page brings a job that was not seen (a non-empty
\* jobId outside seen_jobs) and grows by 1 when it brings none
C16_ProcessedPageUpdatesTracker ==
    [][ \A h \in Suspended :
          (Resumed(h) /\ h.pc = "json" /\ h.body.json /\ h.body.status = "1")
            => /\ seen_pages' = seen_pages \cup {h.pageno}
               /\ DOMAIN page_arrived' = DOMAIN page_arrived
               /\ \A k \in DOMAIN page_arrived :
                     page_arrived'[k] = (page_arrived[k] \/ k = h.pageno)
               /\ no_progress' =
                     (IF \E i \in DOMAIN h.body.items :
                            /\ Strip(h.body.items[i]) # ""
                            /\ Strip(h.body.items[i]) \notin seen_jobs
                        THEN 0 ELSE no_progress + 1) ]_vars

\* C16 witness: page 2 arrived in the first step with the job of page 1
\* only; its handle is set and no_progress is 1
C16_Witness ==
    /\ crawlPc = "wait_arrival"
    /\ step = 1
    /\ seen_pages = {"1", "2"}
    /\ JobsWritten = <<"a">>
    /\ "2" \in DOMAIN page_arrived
    /\ page_arrived["2"]
    /\ no_progress = 1

\* C17 as claimed: a step whose wait ends with Arrived ends with
\* no_progress = 0, and a wait that times out adds exactly 1
C17_ArrivedMeansReset ==
    /\ [][Arrived => no_progress' = 0]_vars
    /\ [][ArrivalTimeout => no_progress' = no_progress + 1]_vars

\* C17 amended: a wait that ends with Arrived leaves no_progress as the
\* handlers left it, and a handle is set only when its page was processed,
\* which set the counter to 0 or added 1 to it; a wait that times out adds
\* exactly 1
C17_ArrivedKeepsCounter ==
    /\ [][Arrived => (no_progress' = no_progress
                        /\ ToStr(expected_next) \in seen_pages)]_vars
    /\ [](\A k \in DOMAIN page_arrived : page_arrived[k] => k \in seen_pages)
    /\ [][ArrivalTimeout => no_progress' = no_progress + 1]_vars

\* C17 witness: the first step ended with Arrived for a page 2 that
\* brought no new job, and no_progress is 1
C17_Witness ==
    /\ crawlPc = "loop"
    /\ step = 2
    /\ failRun = 0
    /\ nResp = 2
    /\ seen_pages = {"1", "2"}
    /\ no_progress = 1

\* C18: a step registers a fresh wait handle for CurrentMaxPage + 1 before
\* click_next_strict is entered; from then until the wait is over the
\* handle is set whenever the expected page has been processed, whether
\* that happened during the click or during the wait, and the wait times
\* out only when the expected page was not processed
C18_NoLostWakeUp ==
    /\ [][(crawlPc = "loop" /\ crawlPc' = "click")
            => /\ expected_next' = CurrentMaxPage(seen_pages) + 1
               /\ ToStr(expected_next') \in DOMAIN page_arrived'
               /\ ~page_arrived'[ToStr(expected_next')]
               /\ ToStr(expected_next') \notin seen_pages' ]_vars
    /\ [](crawlPc \in {"click", "wait_arrival"}
            => /\ ToStr(expected_next) \in DOMAIN page_arrived
               /\ page_arrived[ToStr(expected_next)]
                    <=> ToStr(expected_next) \in seen_pages)
    /\ [][(crawlPc = "wait_arrival" /\ crawlPc' = "loop")
            => IF ToStr(expected_next) \in seen_pages
                 THEN Arrived ELSE ArrivalTimeout ]_vars

\* C18 witness: the expected page 2 was processed while click_next_strict
\* was still running
C18_Witness ==
    /\ crawlPc = "click"
    /\ expected_next = 2
    /\ "2" \in seen_pages
    /\ page_arrived["2"]

\* C19 as claimed, for the part on the waits: every wait handle that a step
\* registers is awaited, that is, a click_next_strict that returns is
\* always followed by the wait
C19_EveryHandleAwaited ==
    [][(crawlPc = "click" /\ crawlPc' \notin {"click", "idle"})
         => crawlPc' = "wait_arrival"]_vars

\* C19 amended: a wait handle goes from unset to set only in the handler
\* that processes the page of its key, and is never unset: an unset handle
\* under a key appears only when a step registers a new one; the wait of a
\* step is entered from click_next_strict only, on the handle that the
\* step registered, and is left for the next step only, which registers a
\* new unset handle before it waits, so a handle is awaited at most once
\* and a handle that was never set is not awaited after its step
C19_HandleOneShot ==
    /\ [][ \A k \in DOMAIN page_arrived \cap DOMAIN page_arrived' :
             page_arrived'[k] # page_arrived[k]
               => IF page_arrived'[k]
                    THEN \E h \in Suspended :
                           /\ Resumed(h) /\ h.pageno = k
                           /\ h.pc = "json" /\ h.body.json /\ h.body.status = "1"
                    ELSE /\ crawlPc = "loop" /\ crawlPc' = "click"
                         /\ k = ToStr(expected_next') ]_vars
    /\ [][(crawlPc # "wait_arrival" /\ crawlPc' = "wait_arrival")
            => (crawlPc = "click" /\ UNCHANGED << page_arrived, expected_next, step >>)]_vars
    /\ [][(crawlPc = "wait_arrival" /\ crawlPc' # "wait_arrival")
            => (crawlPc' = "loop" /\ step' = step + 1)]_vars
    /\ [][(crawlPc = "loop" /\ crawlPc' = "click")
            => ~page_arrived'[ToStr(expected_next')]]_vars

\* C19 witness: the handle of page 2 of the first step was not set; the
\* second step waits on a new handle for page 2
C19_Witness ==
    /\ crawlPc = "wait_arrival"
    /\ step = 2
    /\ failRun = 1
    /\ expected_next = 2
    /\ ~page_arrived["2"]

\* C20: the loop, and with it click_next_strict, is entered only with the
\* latch released; the latch is released only by the handler that
\* processes a page of pageno "1" with at least one item, and stays
\* released for the rest of the invocation whatever is processed later; a
\* first-page wait that ends without the latch ends crawl() with False
\* before any step of the loop
C20_PaginatingOnlyAfterFirstPage ==
    /\ [](crawlPc \in {"loop", "click", "wait_arrival"}
            => (first_page_ok /\ "1" \in Range(PagesWritten)))
    /\ [][ (~first_page_ok /\ first_page_ok')
             => \E h \in Suspended :
                   /\ Resumed(h) /\ h.pc = "json" /\ h.body.json
                   /\ h.body.status = "1"
                   /\ h.pageno = "1"
                   /\ Len(h.body.items) >= 1 ]_vars
    /\ [][ (first_page_ok /\ ~first_page_ok')
             => (crawlPc = "idle" /\ crawlPc' = "goto") ]_vars
    /\ [][ (crawlPc = "wait_first" /\ crawlPc' # "wait_first")
             => IF first_page_ok THEN crawlPc' = "loop" /\ step' = 1
                                 ELSE crawlPc' = "save_false" /\ step' = 0 ]_vars
    /\ [](CurrentExit = "FirstPageTimeout"
            => /\ step = 0
               /\ DOMAIN page_arrived = {}
               /\ crawlPc \in {"save_false", "idle"}
               /\ Len(ok) = attempt => ~ok[attempt])

\* C20 witness: page 1 came with one item that has no jobId; the latch is
\* released and the first click is under way
C20_Witness ==
    /\ crawlPc = "click"
    /\ step = 1
    /\ first_page_ok
    /\ PagesWritten = <<"1">>
    /\ JobsWritten = <<>>

\* C21: click_next_strict returns False, and has dispatched no click,
\* whenever the resolver finds no visible candidate whose bounding box is
\* larger than 2 px both ways, and whenever the element it resolved carries
\* the disabled attribute or the is-disabled class; crawl() answers a False
\* with no_progress + 1 and goes on to the next step of the loop without
\* waiting for an arrival
C21_FalseMeansNoClickAndOneBump ==
    [][ /\ ( /\ clickPc = "resolve"
             /\ clickPc' # "resolve"
             /\ ~\E i \in DOMAIN dom.cands :
                    /\ dom.cands[i].visible
                    /\ dom.cands[i].box
                    /\ dom.cands[i].width > 2
                    /\ dom.cands[i].height > 2 )
           => clickPc' = "returned_false"
        /\ ( /\ clickPc = "attrs"
             /\ clickPc' # "attrs"
             /\ btn \in DOMAIN dom.cands
             /\ dom.cands[btn].disabled_attr \/ dom.cands[btn].is_disabled )
           => clickPc' = "returned_false"
        /\ clickPc' = "returned_false"
           => \A i \in DOMAIN clickLog' : clickLog'[i] # "btn.click"
        /\ (clickPc = "returned_false" /\ clickPc' # "returned_false")
           => /\ crawlPc = "click"
              /\ crawlPc' = "loop"
              /\ no_progress' = no_progress + 1
              /\ step' = step + 1
              /\ UNCHANGED << page_arrived, expected_next, seen_pages,
                              seen_jobs, first_page_ok, streamVars >>
      ]_vars

\* C21 witness: the first step found the resolved button disabled, no click
\* was dispatched, and the loop went on with the counter at 1
C21_Witness ==
    /\ crawlPc = "loop"
    /\ clickPc = "idle"
    /\ step = 2
    /\ no_progress = 1
    /\ btn \in DOMAIN dom.cands
    /\ dom.cands[btn].is_disabled
    /\ clickLog = << "escape_and_defocus", "_resolve_next_button_locator",
                     "get_attribute" >>

\* the page operations click_next_strict ran after its first hit-test
AfterHitTest == SubSeq(clickLog, 6, Len(clickLog))

\* the operations of the intercepted path, the interceptor disabled or not
InterceptedPath(dis) ==
    << dis, "escape_and_defocus", "center_locator_with_offset",
       "hit_test_next_button", "btn.click" >>
InterceptedPaths ==
    { InterceptedPath("disable_click_interceptor"),
      InterceptedPath("disable_click_interceptor:did_disable") }

C23_OutOfScopeResponseHasNoEffect ==
    [][ \A q \in SearchQueries :
          ( /\ OnResponse(q, Bodies)
            /\ \/ q.kw \notin {KEYWORD, ""}
               \/ JOBAREA # "" /\ q.jobarea \notin {JOBAREA, ""}
               \/ q.pageno = ""
               \/ q.pageno \in seen_pages )
          => UNCHANGED << seen_pages, seen_jobs, no_progress, first_page_ok,
                          page_arrived, f_jobs, f_pages, inflight >>
      ]_vars

\* C23 witness: two responses of the search API came during the first-page
\* wait, no page is seen, and neither response left a trace
C23_Witness ==
    /\ attempt = 1
    /\ crawlPc = "wait_first"
    /\ nResp = 2
    /\ inflight = EmptyBag
    /\ seen_pages = {}
    /\ seen_jobs = {}
    /\ no_progress = 0
    /\ ~first_page_ok
    /\ f_pages = <<>>
    /\ f_jobs = <<>>

\* C24: page.goto is tried at most 3 times in a crawl() and not again after
\* a try that succeeded; after the third failure crawl() goes straight to
\* saving the state and returning False: it has not waited for the first
\* page and has not entered click_next_strict
C24_NavigationBoundedThenFailed ==
    /\ [](navTry <= 3)
    /\ []( (crawlPc # "idle" /\ CurrentExit = "NavFailed")
             => /\ crawlPc = "save_false"
                /\ navTry = 3
                /\ step = 0
                /\ expected_next = 0
                /\ page_arrived = <<>> )
    /\ [][ /\ navTry' # navTry => crawlPc' = "goto"
           /\ (crawlPc = "goto" /\ crawlPc' # "goto")
                => \/ crawlPc' = "wait_first" /\ exits' = exits
                   \/ /\ navTry = 3
                      /\ crawlPc' = "save_false"
                      /\ exits' = Append(exits, "NavFailed")
           /\ (crawlPc = "save_false" /\ CurrentExit = "NavFailed"
                 /\ crawlPc' # crawlPc)
                => /\ crawlPc' = "idle"
                   /\ ok' = Append(ok, FALSE)
         ]_vars

\* C24 witness: the third page.goto failed and crawl() returned False
\* without a step of the loop
C24_Witness ==
    /\ exits = <<"NavFailed">>
    /\ ok = <<FALSE>>
    /\ navTry = 3
    /\ step = 0
    /\ crawlPc = "idle"

\* C25: every crawl() starts with seen_pages and seen_jobs empty,
\* no_progress = 0, first_page_ok not set, page_arrived empty and no handler
\* of an earlier invocation suspended; the streams are opened for append, so
\* the second crawl() writes after the lines of the first and does not know
\* their job ids
C25_EveryCrawlStartsFresh ==
    [][ (crawlPc = "idle" /\ crawlPc' # "idle")
          => /\ seen_pages' = {}
             /\ seen_jobs' = {}
             /\ no_progress' = 0
             /\ ~first_page_ok'
             /\ page_arrived' = <<>>
             /\ inflight' = EmptyBag
             /\ f_jobs' = f_jobs
             /\ f_pages' = f_pages
             /\ jobs_base' = Len(f_jobs)
             /\ pages_base' = Len(f_pages)
      ]_vars

\* C25 witness: the second crawl() appended a job id that the first one had
\* written to the same stream
C25_Witness ==
    /\ attempt = 2
    /\ \E i \in 1..jobs_base : \E j \in (jobs_base + 1)..Len(f_jobs) :
          f_jobs[i] = f_jobs[j]

\* C26: in every state every id in seen_jobs has a line in the job stream
\* and every pageno in seen_pages a line in the page stream, both written by
\* the running crawl(); an id or a pageno is marked seen only after its line
\* was written and flushed, and a job line is written only after the page
\* line of the page that carries the job
C26_WrittenBeforeMarkedSeen ==
    /\ [](seen_jobs \subseteq Range(JobsWritten))
    /\ [](seen_pages \subseteq Range(PagesWritten))
    /\ [][ /\ (seen_jobs' \ seen_jobs) \subseteq Range(JobsWritten)
           /\ (seen_pages' \ seen_pages) \subseteq Range(PagesWritten)
           /\ f_jobs' # f_jobs
                => /\ ps.pc = "write_job"
                   /\ ps.pageno \in Range(PagesWritten)
         ]_vars

\* C26 witness: inside a call the page line and a job line are written and
\* neither the pageno nor the job id is marked seen yet
C26_Witness ==
    /\ ps.pc = "add_job"
    /\ JobIdOf(ps.items[ps.i]) \in Range(JobsWritten)
    /\ JobIdOf(ps.items[ps.i]) \notin seen_jobs
    /\ ps.pageno \in Range(PagesWritten)
    /\ ps.pageno \notin seen_pages

\* the highest number among the digit strings of a set of pagenos, 1 if
\* there is none
MaxPageOf(sp) ==
    LET nums == { n \in 0..9 : ToStr(n) \in sp }
    IN  IF nums = {} THEN 1 ELSE CHOOSE m \in nums : \A n \in nums : n <= m

\* C27: within a crawl() the highest page number of seen_pages never goes
\* down, and the handle the head of a step registers is the one of the page
\* after the highest, a page that is not in seen_pages at that moment
C27_MaxPageMonotoneAndRegisteredPageUnseen ==
    [][ /\ (crawlPc # "idle" /\ crawlPc' # "idle")
             => MaxPageOf(seen_pages') >= MaxPageOf(seen_pages)
        /\ (crawlPc = "loop" /\ crawlPc' = "click")
             => /\ expected_next' = MaxPageOf(seen_pages) + 1
                /\ ToStr(expected_next') \notin seen_pages
                /\ ToStr(expected_next') \in DOMAIN page_arrived'
                /\ ~page_arrived'[ToStr(expected_next')]
        /\ (crawlPc # "idle" /\ DOMAIN page_arrived' # DOMAIN page_arrived)
             => (crawlPc = "loop" /\ crawlPc' = "click")
      ]_vars

\* C27 witness: page 2 was processed and the next step registered the
\* handle of page 3
C27_Witness ==
    /\ crawlPc = "click"
    /\ seen_pages = {"1", "2"}
    /\ expected_next = 3
    /\ DOMAIN page_arrived = {"2", "3"}
    /\ ~page_arrived["3"]

\* C28: once page "1" is in seen_pages with first_page_ok not set, that is
\* once a page 1 of zero items has been processed, first_page_ok is never
\* set in that crawl() and the pagination loop is never entered: the
\* first-page wait ends with its timeout
C28_EmptyFirstPageNeverReleases ==
    [][ ("1" \in seen_pages /\ ~first_page_ok /\ crawlPc # "idle")
          => /\ ~first_page_ok'
             /\ crawlPc' \notin {"loop", "click", "wait_arrival"}
      ]_vars

====
